---- MODULE Spec2Model ----
(***************************************************************************)
(* The chat front-end of ollama-server/frontend/src/App.js as a state      *)
(* machine: the React state of App, the sockets created by the connect     *)
(* effect and the events delivered to their handlers.                      *)
(*                                                                         *)
(* One action is one event delivered to the page (a user event, a socket   *)
(* event, the completion of the model-list fetch) together with the render *)
(* it causes and the effects of that render: the state updates of a        *)
(* handler, the end-of-streaming effect (App.js 126-134) and the connect   *)
(* effect with its cleanup (App.js 137-217) are committed before the next  *)
(* event is delivered.                                                     *)
(*                                                                         *)
(* Strings are TLA+ strings; \o, Len and SubSeq act on them as on          *)
(* sequences of characters.                                                *)
(***************************************************************************)
EXTENDS Integers, Sequences, FiniteSets, TLC

\* ------------------------------------------------------------------ bounds
\* events (user events, socket events, the answer of the model-list fetch)
\* delivered to the page in one run
MaxEvents == 6
\* characters appended to a model identifier before getDisplayName is applied
MaxTyped == 3

\* ------------------------------------------------------- strings (helpers)
UpperChars == "ABCDEFGHIJKLMNOPQRSTUVWXYZ"
LowerChars == "abcdefghijklmnopqrstuvwxyz"
DigitChars == "0123456789"

CharAt(s, i) == SubSeq(s, i, i)

\* TRUE iff the one-character string c occurs in the string set
CharIn(c, set) == \E i \in 1..Len(set) : CharAt(set, i) = c

IndexIn(c, set) == CHOOSE i \in 1..Len(set) : CharAt(set, i) = c

LowerChar(c) == IF CharIn(c, UpperChars) THEN CharAt(LowerChars, IndexIn(c, UpperChars)) ELSE c

UpperChar(c) == IF CharIn(c, LowerChars) THEN CharAt(UpperChars, IndexIn(c, LowerChars)) ELSE c

RECURSIVE toLowerCase(_)
toLowerCase(s) ==
  IF Len(s) = 0 THEN "" ELSE LowerChar(CharAt(s, 1)) \o toLowerCase(SubSeq(s, 2, Len(s)))

\* String.prototype.includes
includes(s, sub) ==
  \E i \in 1..(Len(s) - Len(sub) + 1) : SubSeq(s, i, i + Len(sub) - 1) = sub

\* /[^a-zA-Z0-9]/ matches the one-character string c
NonAlnum(c) == ~(CharIn(c, UpperChars) \/ CharIn(c, LowerChars) \/ CharIn(c, DigitChars))

\* the separator of split: ":" for split(':'), else the regular expression
IsSeparator(sep, c) == IF sep = ":" THEN c = ":" ELSE NonAlnum(c)

\* String.prototype.split on a one-character separator class: the pieces
\* between the separators, empty pieces included; "" splits into <<"">>.
RECURSIVE split(_, _, _, _)
split(s, i, cur, sep) ==
  IF i > Len(s) THEN <<cur>>
  ELSE IF IsSeparator(sep, CharAt(s, i)) THEN <<cur>> \o split(s, i + 1, "", sep)
  ELSE split(s, i + 1, cur \o CharAt(s, i), sep)

\* Array.prototype.join(' ')
RECURSIVE join(_)
join(words) ==
  IF Len(words) = 0 THEN ""
  ELSE IF Len(words) = 1 THEN words[1]
  ELSE words[1] \o " " \o join(Tail(words))

\* mutant: word.toLowerCase() where the code has word.slice(1).toLowerCase()
Capitalize_NoSlice(word) ==
  IF Len(word) = 0 THEN ""
  ELSE UpperChar(CharAt(word, 1)) \o toLowerCase(word)

\* mutant: word.slice(1) where the code has word.slice(1).toLowerCase()
Capitalize_KeepCase(word) ==
  IF Len(word) = 0 THEN ""
  ELSE UpperChar(CharAt(word, 1)) \o SubSeq(word, 2, Len(word))

\* word.charAt(0).toUpperCase() + word.slice(1).toLowerCase()
Capitalize(word) ==
  IF Len(word) = 0 THEN ""
  ELSE UpperChar(CharAt(word, 1)) \o toLowerCase(SubSeq(word, 2, Len(word)))

\* the alias table of getDisplayName, in insertion order
modelMap ==
  << <<"mistral:latest", "Mistral">>,
     <<"deepseek-r1:latest", "DeepSeek R1">>,
     <<"llama3.2:latest", "Llama 3.2">>,
     <<"gemma2:2b", "Gemma 2">> >>

FormatName(modelName) ==
  LET parts == split(modelName, 1, "", ":")
      words == split(parts[1], 1, "", "[^a-zA-Z0-9]")
  IN join([k \in 1..Len(words) |-> Capitalize(words[k])])

getDisplayName(modelName) ==
  LET hits == {k \in 1..Len(modelMap) :
                 includes(toLowerCase(modelName), toLowerCase(modelMap[k][1]))}
  IN IF hits # {}
       THEN modelMap[CHOOSE k \in hits : \A j \in hits : k <= j][2]
       ELSE FormatName(modelName)

\* String.prototype.trim, for the blanks the inputs of the model contain
RECURSIVE trim(_)
trim(s) ==
  IF Len(s) = 0 THEN ""
  ELSE IF CharAt(s, 1) = " " THEN trim(SubSeq(s, 2, Len(s)))
  ELSE IF CharAt(s, Len(s)) = " " THEN trim(SubSeq(s, 1, Len(s) - 1))
  ELSE s

\* ------------------------------------------------------------ environment
\* bodies the model-list endpoint may answer with (data.models)
ModelLists ==
  { <<>>,
    <<"mistral:latest">>,
    <<"custom-model:7b", "mistral:latest">> }

\* texts the user may have typed into the input
Inputs == {"", "  ", "hi"}

\* contents of the stream frames and of the error frames
Deltas == {"", "Hel", "lo"}
ErrorTexts == {"overloaded"}

\* event.data of an inbound message event: text that JSON.parse accepts
\* (wellFormed) with the fields of the parsed object, or text it rejects
Frame(t, c, h) == [wellFormed |-> TRUE, type |-> t, content |-> c, histories |-> h]

Frames ==
  {Frame("stream_start", "", <<>>), Frame("stream_end", "", <<>>)}
    \cup {Frame("stream", d, <<>>) : d \in Deltas}
    \cup {Frame("error", e, <<>>) : e \in ErrorTexts}
    \cup {Frame("chat_histories", "", <<"h1">>), Frame("pong", "", <<>>)}
    \cup {[wellFormed |-> FALSE, type |-> "", content |-> "", histories |-> <<>>]}

\* ------------------------------------------------------------------ state
VARIABLES
  models,                 \* useState([])
  selectedModel,          \* useState('')
  messages,               \* useState([])
  inputMessage,           \* useState('')
  isConnected,            \* useState(false)
  isStreaming,            \* useState(false)
  currentResponse,        \* useState('')
  initialConnectionMade,  \* useState(false)
  chatHistories,          \* useState([])
  socketRef,              \* socketRef.current: index into sockets, 0 for null
  sockets,                \* the WebSocket objects created so far, in order
  sent,                   \* the frames handed to the network, in order
  fetchPending,           \* fetchModels has not completed yet
  nEvents,                \* events delivered so far
  stream,                 \* history: the frames since the latest stream_start
  socketLog,              \* history: per socket, what held when it was created
  lastEvent,              \* history: the event delivered last
  nameInput,              \* the modelName handed to getDisplayName
  nameTyped,              \* characters appended to nameInput so far
  nameShown               \* what getDisplayName returned for nameInput

appState ==
  <<models, selectedModel, messages, inputMessage, isConnected, isStreaming,
    currentResponse, initialConnectionMade, chatHistories>>

sessionVars ==
  <<appState, socketRef, sockets, sent, fetchPending, nEvents, stream, socketLog,
    lastEvent>>

nameVars == <<nameInput, nameTyped, nameShown>>

vars == <<sessionVars, nameVars>>

Event(op, s, arg) == [op |-> op, sock |-> s, arg |-> arg]

\* the event e is delivered: one more event of the run
Delivered(e) ==
  /\ nEvents < MaxEvents
  /\ nEvents' = nEvents + 1
  /\ lastEvent' = e
  /\ UNCHANGED nameVars

NoStream == [open |-> FALSE, sock |-> 0, deltas |-> <<>>, mixed |-> FALSE]

\* getDisplayName has not been applied to nameInput
NotShown == [done |-> FALSE, once |-> "", twice |-> ""]

\* the page after its first render, the fetch of the model list under way
SessionInit ==
  /\ models = <<>>
  /\ selectedModel = ""
  /\ messages = <<>>
  /\ inputMessage = ""
  /\ isConnected = FALSE
  /\ isStreaming = FALSE
  /\ currentResponse = ""
  /\ initialConnectionMade = FALSE
  /\ chatHistories = <<>>
  /\ socketRef = 0
  /\ sockets = <<>>
  /\ sent = <<>>
  /\ fetchPending = TRUE
  /\ nEvents = 0
  /\ stream = NoStream
  /\ socketLog = <<>>
  /\ lastEvent = Event("mount", 0, "")

Init ==
  /\ SessionInit
  /\ nameInput = ""
  /\ nameTyped = 0
  /\ nameShown = NotShown

\* ---------------------------------------------------------------- effects
\* mutant: the list as it arrived
reverse_Missing(a) == a

\* Array.prototype.reverse
RECURSIVE reverse(_)
reverse(a) == IF Len(a) = 0 THEN <<>> ELSE Append(reverse(Tail(a)), Head(a))

\* mutant: the effect without its test of the buffer
endOfStreamingMessages_Unguarded(msgs, streaming, resp, sel) ==
  IF ~streaming
    THEN Append(msgs, [type |-> "assistant", content |-> resp, model |-> sel])
    ELSE msgs

\* The effect for handling the end of streaming, run after a render that
\* leaves the history msgs, the flag streaming, the buffer resp and the
\* selected model sel: the history it leaves ...
endOfStreamingMessages(msgs, streaming, resp, sel) ==
  IF ~streaming /\ resp # ""
    THEN Append(msgs, [type |-> "assistant", content |-> resp, model |-> sel])
    ELSE msgs

\* ... and the buffer it leaves
endOfStreamingResponse(streaming, resp) ==
  IF ~streaming /\ resp # "" THEN "" ELSE resp

\* WebSocket.close(): an open or connecting socket starts closing
close(sock) ==
  IF sock.readyState \in {"CONNECTING", "OPEN"}
    THEN [sock EXCEPT !.readyState = "CLOSING"]
    ELSE sock

\* The cleanup the connect effect returned for the socket it created: ref is
\* that socket (0 when the effect created none).
cleanup(socks, ref) ==
  IF ref # 0 /\ socks[ref].readyState = "OPEN"
    THEN [socks EXCEPT ![ref] = close(socks[ref])]
    ELSE socks

\* "Close existing socket connection if any", at the head of the connect effect
closeExisting(socks, ref) ==
  IF ref # 0 /\ socks[ref].readyState = "OPEN"
    THEN [socks EXCEPT ![ref] = close(socks[ref])]
    ELSE socks

\* new WebSocket(`ws://localhost:8000/ws/${selectedModel}`) with the handlers
\* of this run of the effect: they close over the selectedModel and the
\* initialConnectionMade of the render the effect belongs to
newSocket(sel, made) ==
  [model |-> sel, readyState |-> "CONNECTING", initialConnectionMade |-> made]

\* The connect effect after a render in which selectedModel changed to sel:
\* the cleanup of the previous run, then the body. The sockets it leaves.
connectEffect(socks, ref, sel, made) ==
  IF sel # ""
    THEN Append(closeExisting(cleanup(socks, ref), ref), newSocket(sel, made))
    ELSE cleanup(socks, ref)

\* mutant: socketRef.current keeps the first socket it was given
connectRef_KeepFirst(socks, ref, sel) ==
  IF sel # "" /\ ref = 0 THEN Len(socks) + 1 ELSE ref

\* socketRef.current = socket
connectRef(socks, ref, sel) == IF sel # "" THEN Len(socks) + 1 ELSE ref

\* history: some greeting is in the Message history
IsGreeting(msg) ==
  /\ msg.type = "assistant"
  /\ Len(msg.content) >= 18
  /\ SubSeq(msg.content, 1, 18) = "Hello there! I am "

Greeted == \E k \in 1..Len(messages) : IsGreeting(messages[k])

\* history: the connect effect ran for the model sel
logAfterConnect(sel) ==
  IF sel # ""
    THEN Append(socketLog, [greetedAtCreate |-> Greeted, opened |-> FALSE])
    ELSE socketLog

\* ----------------------------------------------------------- model list
\* fetchModels, the fetch answered with the body {models: list}
fetchModelsOk(list) ==
  /\ fetchPending
  /\ fetchPending' = FALSE
  /\ LET ms == reverse(list)
     IN IF Len(list) > 0
          THEN /\ models' = ms
               /\ selectedModel' = ms[1]
               /\ sockets' = connectEffect(sockets, socketRef, ms[1], initialConnectionMade)
               /\ socketRef' = connectRef(sockets, socketRef, ms[1])
               /\ socketLog' = logAfterConnect(ms[1])
          ELSE UNCHANGED <<models, selectedModel, sockets, socketRef, socketLog>>
  /\ Delivered(Event("fetchModelsOk", 0, list))
  /\ UNCHANGED <<messages, inputMessage, isConnected, isStreaming, currentResponse,
                 initialConnectionMade, chatHistories, sent, stream>>

\* what makes fetchModels fail: fetch() rejects, response.json() rejects, or
\* the body has no models list and data.models.reverse() throws
FetchFailures == {"network error", "unparseable body", "no models list"}

\* mutant: the catch block only logs
fetchModelsFail_Silent(why) ==
  /\ fetchPending
  /\ fetchPending' = FALSE
  /\ Delivered(Event("fetchModelsFail", 0, why))
  /\ UNCHANGED socketLog
  /\ UNCHANGED <<models, selectedModel, messages, inputMessage, isConnected,
                 isStreaming, currentResponse, initialConnectionMade, chatHistories,
                 socketRef, sockets, sent, stream>>

\* fetchModels, failing for the reason why: the catch block
fetchModelsFail(why) ==
  /\ fetchPending
  /\ fetchPending' = FALSE
  /\ messages' = Append(messages,
       [type |-> "system",
        content |-> "Error connecting to the server. Please ensure the backend is running."])
  /\ Delivered(Event("fetchModelsFail", 0, why))
  /\ UNCHANGED socketLog
  /\ UNCHANGED <<models, selectedModel, inputMessage, isConnected, isStreaming,
                 currentResponse, initialConnectionMade, chatHistories, socketRef,
                 sockets, sent, stream>>

\* ----------------------------------------------------------- user events
\* <select disabled={isStreaming}>
ModelSelectEnabled == ~isStreaming

\* handleModelChange: the user picks the option m of the model select
handleModelChange(m) ==
  /\ ModelSelectEnabled
  /\ \E k \in 1..Len(models) : models[k] = m
  /\ m # selectedModel
  /\ selectedModel' = m
  /\ messages' = endOfStreamingMessages(messages, isStreaming, currentResponse, m)
  /\ currentResponse' = endOfStreamingResponse(isStreaming, currentResponse)
  /\ sockets' = connectEffect(sockets, socketRef, m, initialConnectionMade)
  /\ socketRef' = connectRef(sockets, socketRef, m)
  /\ socketLog' = logAfterConnect(m)
  /\ Delivered(Event("handleModelChange", 0, m))
  /\ UNCHANGED <<models, inputMessage, isConnected, isStreaming,
                 initialConnectionMade, chatHistories, sent, fetchPending, stream>>

\* <input disabled={!isConnected || isStreaming}>
InputEnabled == isConnected /\ ~isStreaming

\* onChange of the text input
handleInputChange(v) ==
  /\ InputEnabled
  /\ v # inputMessage
  /\ inputMessage' = v
  /\ Delivered(Event("handleInputChange", 0, v))
  /\ UNCHANGED socketLog
  /\ UNCHANGED <<models, selectedModel, messages, isConnected, isStreaming,
                 currentResponse, initialConnectionMade, chatHistories, socketRef,
                 sockets, sent, fetchPending, stream>>

\* the guard of handleSendMessage
sendRejected == trim(inputMessage) = "" \/ ~isConnected \/ isStreaming

\* WebSocket.send(data) on the socket s: it throws InvalidStateError while the
\* socket is connecting, transmits while it is open, and discards the data
\* once the socket is closing or closed
sendThrows(s) == sockets[s].readyState = "CONNECTING"

sendFrames(s, frame) ==
  IF sockets[s].readyState = "OPEN" THEN Append(sent, [sock |-> s, frame |-> frame]) ELSE sent

\* handleSendMessage: the form is submitted
handleSendMessage ==
  /\ Delivered(Event("handleSendMessage", socketRef, inputMessage))
  /\ UNCHANGED socketLog
  /\ IF sendRejected
       THEN UNCHANGED <<messages, sent, inputMessage>>
       ELSE /\ messages' = Append(messages, [type |-> "user", content |-> inputMessage])
            /\ sent' = sendFrames(socketRef, [type |-> "message", content |-> inputMessage])
            /\ inputMessage' = IF sendThrows(socketRef) THEN inputMessage ELSE ""
  /\ UNCHANGED <<models, selectedModel, isConnected, isStreaming, currentResponse,
                 initialConnectionMade, chatHistories, socketRef, sockets,
                 fetchPending, stream>>

\* identifiers of the stored chats loadChatHistory may be called with
HistoryIds == {"h1"}

\* loadChatHistory(historyId): the request for the stored chat h, sent when
\* socketRef.current is set and open. No element of the page calls it yet
\* and nothing sets showHistoryModal, so setShowHistoryModal(false) leaves
\* the state as it is.
loadChatHistory(h) ==
  /\ Delivered(Event("loadChatHistory", socketRef, h))
  /\ sent' = IF socketRef # 0 /\ sockets[socketRef].readyState = "OPEN"
              THEN sendFrames(socketRef, [type |-> "load_history", history_id |-> h])
              ELSE sent
  /\ UNCHANGED socketLog
  /\ UNCHANGED <<models, selectedModel, messages, inputMessage, isConnected,
                 isStreaming, currentResponse, initialConnectionMade, chatHistories,
                 socketRef, sockets, fetchPending, stream>>

\* ---------------------------------------------------------- socket events
\* the greeting of socket.onopen
greeting(sel) ==
  [type |-> "assistant",
   content |-> "Hello there! I am " \o getDisplayName(sel) \o ". How can I assist you today?",
   model |-> sel]

\* mutant: the handler reads the flag of the latest render, not the one it
\* closed over
greets_Latest(sock) == ~initialConnectionMade

\* if (!initialConnectionMade), as the handler of the socket sock reads it
greets(sock) == ~sock.initialConnectionMade

\* socket.onopen: the connection of the socket s is established
onopen(s) ==
  /\ sockets[s].readyState = "CONNECTING"
  /\ sockets' = [sockets EXCEPT ![s].readyState = "OPEN"]
  /\ isConnected' = TRUE
  /\ IF greets(sockets[s])
       THEN /\ messages' = Append(messages, greeting(sockets[s].model))
            /\ initialConnectionMade' = TRUE
       ELSE UNCHANGED <<messages, initialConnectionMade>>
  /\ socketLog' = [socketLog EXCEPT ![s].opened = TRUE]
  /\ Delivered(Event("onopen", s, ""))
  /\ UNCHANGED <<models, selectedModel, inputMessage, isStreaming, currentResponse,
                 chatHistories, socketRef, sent, fetchPending, stream>>

\* JSON.parse(event.data).type; "" stands for the SyntaxError the handler catches
parsedType(f) == IF f.wellFormed THEN f.type ELSE ""

\* mutant: a frame of no known type ends the stream
frameStreaming_DefaultIdle(f, streaming) ==
  IF parsedType(f) = "stream_start" THEN TRUE
  ELSE IF parsedType(f) = "stream" THEN streaming
  ELSE FALSE

\* the isStreaming the handler of the frame f leaves
frameStreaming(f, streaming) ==
  IF parsedType(f) = "stream_start" THEN TRUE
  ELSE IF parsedType(f) \in {"stream_end", "error"} THEN FALSE
  ELSE streaming

\* mutant: the delta goes in front of the buffer
streamDelta_Prepend(prev, content) == content \o prev

\* setCurrentResponse(prev => prev + data.content)
streamDelta(prev, content) == prev \o content

\* the currentResponse the handler of the frame f leaves
frameResponse(f, resp) ==
  IF parsedType(f) = "stream_start" THEN ""
  ELSE IF parsedType(f) = "stream" THEN streamDelta(resp, f.content)
  ELSE resp

\* mutant: the text of the frame without the "Error: " in front
errorMessage_Bare(content) == [type |-> "system", content |-> content]

\* the system Message of an error frame
errorMessage(content) == [type |-> "system", content |-> "Error: " \o content]

\* mutant: setMessages([...]) without the Messages it found
frameMessages_Replace(f, msgs) ==
  IF parsedType(f) = "error" THEN <<errorMessage(f.content)>> ELSE msgs

\* the messages the handler of the frame f leaves
frameMessages(f, msgs) ==
  IF parsedType(f) = "error" THEN Append(msgs, errorMessage(f.content)) ELSE msgs

\* history: the frames since the latest stream_start, after the frame f on s
streamAfter(s, f) ==
  IF parsedType(f) = "stream_start"
    THEN [open |-> TRUE, sock |-> s, deltas |-> <<>>, mixed |-> FALSE]
  ELSE IF ~stream.open THEN NoStream
  ELSE IF parsedType(f) = "stream"
    THEN [stream EXCEPT !.deltas = Append(@, f.content), !.mixed = @ \/ s # stream.sock]
  ELSE IF parsedType(f) \in {"stream_end", "error"}
    THEN [stream EXCEPT !.open = FALSE, !.mixed = @ \/ s # stream.sock]
  ELSE [stream EXCEPT !.mixed = TRUE]

\* socket.onmessage: the frame f arrives on the open socket s
onmessage(s, f) ==
  /\ sockets[s].readyState = "OPEN"
  /\ isStreaming' = frameStreaming(f, isStreaming)
  /\ messages' = endOfStreamingMessages(frameMessages(f, messages),
                   frameStreaming(f, isStreaming), frameResponse(f, currentResponse),
                   selectedModel)
  /\ currentResponse' = endOfStreamingResponse(frameStreaming(f, isStreaming),
                          frameResponse(f, currentResponse))
  /\ chatHistories' = IF parsedType(f) = "chat_histories" THEN f.histories ELSE chatHistories
  /\ stream' = streamAfter(s, f)
  /\ Delivered(Event("onmessage", s, f))
  /\ UNCHANGED socketLog
  /\ UNCHANGED <<models, selectedModel, inputMessage, isConnected,
                 initialConnectionMade, socketRef, sockets, sent, fetchPending>>

\* mutant: onclose ends the stream in progress
onclose_EndsStream(s) ==
  /\ sockets[s].readyState \in {"OPEN", "CLOSING"}
  /\ sockets' = [sockets EXCEPT ![s].readyState = "CLOSED"]
  /\ isConnected' = FALSE
  /\ isStreaming' = FALSE
  /\ messages' = endOfStreamingMessages(messages, FALSE, currentResponse, selectedModel)
  /\ currentResponse' = endOfStreamingResponse(FALSE, currentResponse)
  /\ Delivered(Event("onclose", s, ""))
  /\ UNCHANGED socketLog
  /\ UNCHANGED <<models, selectedModel, inputMessage, initialConnectionMade,
                 chatHistories, socketRef, sent, fetchPending, stream>>

\* mutant: onclose opens a new socket for the model of the closed one
onclose_Reconnect(s) ==
  /\ sockets[s].readyState \in {"OPEN", "CLOSING"}
  /\ sockets' = Append([sockets EXCEPT ![s].readyState = "CLOSED"],
                        newSocket(sockets[s].model, initialConnectionMade))
  /\ socketRef' = Len(sockets) + 1
  /\ socketLog' = logAfterConnect(sockets[s].model)
  /\ isConnected' = FALSE
  /\ Delivered(Event("onclose", s, ""))
  /\ UNCHANGED <<models, selectedModel, messages, inputMessage, isStreaming,
                 currentResponse, initialConnectionMade, chatHistories,
                 sent, fetchPending, stream>>

\* socket.onclose: the connection of s is closed, by the server or at the end
\* of the closing handshake close() started
onclose(s) ==
  /\ sockets[s].readyState \in {"OPEN", "CLOSING"}
  /\ sockets' = [sockets EXCEPT ![s].readyState = "CLOSED"]
  /\ isConnected' = FALSE
  /\ Delivered(Event("onclose", s, ""))
  /\ UNCHANGED socketLog
  /\ UNCHANGED <<models, selectedModel, messages, inputMessage, isStreaming,
                 currentResponse, initialConnectionMade, chatHistories, socketRef,
                 sent, fetchPending, stream>>

\* mutant: onerror tells the user with a system Message
onerror_Message(s) ==
  /\ sockets[s].readyState \in {"CONNECTING", "OPEN"}
  /\ sockets' = [sockets EXCEPT ![s].readyState = "CLOSED"]
  /\ isConnected' = FALSE
  /\ messages' = Append(messages, [type |-> "system", content |-> "WebSocket error"])
  /\ Delivered(Event("onerror", s, ""))
  /\ UNCHANGED socketLog
  /\ UNCHANGED <<models, selectedModel, inputMessage, isStreaming,
                 currentResponse, initialConnectionMade, chatHistories, socketRef,
                 sent, fetchPending, stream>>

\* socket.onerror, then socket.onclose: the connection of s fails
onerror(s) ==
  /\ sockets[s].readyState \in {"CONNECTING", "OPEN"}
  /\ sockets' = [sockets EXCEPT ![s].readyState = "CLOSED"]
  /\ isConnected' = FALSE
  /\ Delivered(Event("onerror", s, ""))
  /\ UNCHANGED socketLog
  /\ UNCHANGED <<models, selectedModel, messages, inputMessage, isStreaming,
                 currentResponse, initialConnectionMade, chatHistories, socketRef,
                 sent, fetchPending, stream>>

\* ---------------------------------------------------------- specification
Next ==
  \/ \E list \in ModelLists : fetchModelsOk(list)
  \/ \E why \in FetchFailures : fetchModelsFail(why)
  \/ \E m \in {"mistral:latest", "custom-model:7b"} : handleModelChange(m)
  \/ \E v \in Inputs : handleInputChange(v)
  \/ handleSendMessage
  \/ \E h \in HistoryIds : loadChatHistory(h)
  \/ \E s \in DOMAIN sockets : onopen(s)
  \/ \E s \in DOMAIN sockets : \E f \in Frames : onmessage(s, f)
  \/ \E s \in DOMAIN sockets : onclose(s)
  \/ \E s \in DOMAIN sockets : onerror(s)

Spec == Init /\ [][Next]_vars

\* ------------------------------------------------- getDisplayName alone
\* model identifiers getDisplayName is applied to: the four aliases, one of
\* them in capitals, an identifier no alias matches, and the empty string
\* the status line hands it before a model is selected
NameSeeds ==
  {"", "mistral:latest", "deepseek-r1:latest", "llama3.2:latest", "gemma2:2b",
   "MISTRAL:LATEST", "custom-model:7b"}

\* characters the identifiers are extended with
NameChars == {"a", "B", "-", ":"}

NamesInit ==
  /\ SessionInit
  /\ nameInput \in NameSeeds
  /\ nameTyped = 0
  /\ nameShown = NotShown

\* the identifier grows by the character c
extendName(c) ==
  /\ nameTyped < MaxTyped
  /\ ~nameShown.done
  /\ nameInput' = nameInput \o c
  /\ nameTyped' = nameTyped + 1
  /\ UNCHANGED <<nameShown, sessionVars>>

\* getDisplayName(nameInput), and getDisplayName of what it returned
showName ==
  /\ ~nameShown.done
  /\ nameShown' = [done |-> TRUE,
                   once |-> getDisplayName(nameInput),
                   twice |-> getDisplayName(getDisplayName(nameInput))]
  /\ UNCHANGED <<nameInput, nameTyped, sessionVars>>

NamesNext ==
  \/ \E c \in NameChars : extendName(c)
  \/ showName

NamesSpec == NamesInit /\ [][NamesNext]_vars

\* ------------------------------------------------------------ properties
RECURSIVE Concat(_)
Concat(strs) == IF Len(strs) = 0 THEN "" ELSE Head(strs) \o Concat(Tail(strs))

\* the Messages a step appended, when the step kept the ones it found
Added == SubSeq(messages', Len(messages) + 1, Len(messages'))

KeepsHistory ==
  /\ Len(messages') >= Len(messages)
  /\ SubSeq(messages', 1, Len(messages)) = messages

\* the step delivers a frame of the type t
FrameStep(t) ==
  /\ lastEvent'.op = "onmessage"
  /\ parsedType(lastEvent'.arg) = t

\* the step delivers the stream_end of a stream whose frames, from its
\* stream_start on, all came on one socket of the selected model
StreamCompletes ==
  /\ FrameStep("stream_end")
  /\ stream.open /\ ~stream.mixed
  /\ lastEvent'.sock = stream.sock
  /\ sockets[stream.sock].model = selectedModel

AssistantMessage(content, model) ==
  [type |-> "assistant", content |-> content, model |-> model]

\* C1 as stated: a stream of a stream_start, deltas d1..dn (n >= 0) and a
\* stream_end on a socket of the selected model M appends exactly one
\* assistant Message, with the content d1..dn and the model M.
C1_AsStated ==
  [][StreamCompletes =>
       messages' = Append(messages,
                     AssistantMessage(Concat(stream.deltas), selectedModel))]_vars

\* C1, amended: such a stream appends exactly one assistant Message, with the
\* content d1..dn and the model M, when d1..dn is not the empty string, and
\* appends no Message when it is.
C1_StreamFinalized ==
  [][StreamCompletes =>
       messages' = IF Concat(stream.deltas) # ""
                     THEN Append(messages,
                            AssistantMessage(Concat(stream.deltas), selectedModel))
                     ELSE messages]_vars

C1_Witness ==
  /\ lastEvent.op = "onmessage" /\ parsedType(lastEvent.arg) = "stream_end"
  /\ ~stream.open /\ ~stream.mixed /\ stream.sock = lastEvent.sock
  /\ stream.deltas = <<"Hel", "lo">>
  /\ selectedModel = "mistral:latest"
  /\ Len(messages) > 0
  /\ messages[Len(messages)] = AssistantMessage("Hello", "mistral:latest")

\* C2 as stated: an error frame that arrives while a stream is in progress
\* with a non-empty buffer adds the system Message "Error: <content>" and
\* nothing else, and leaves the session connected and not streaming.
C2_AsStated ==
  [][(FrameStep("error") /\ isStreaming /\ currentResponse # "") =>
       /\ messages' = Append(messages, errorMessage(lastEvent'.arg.content))
       /\ ~isStreaming'
       /\ isConnected' = isConnected]_vars

\* C3 as stated: a submission while the current socket is not open, or while
\* streaming, or with blank input changes no Message and sends no frame.
C3_AsStated ==
  [][(/\ lastEvent'.op = "handleSendMessage"
      /\ \/ socketRef = 0
         \/ sockets[socketRef].readyState # "OPEN"
         \/ isStreaming
         \/ trim(inputMessage) = "")
       => (messages' = messages /\ sent' = sent)]_vars

\* the sockets that are open or may still open
Live == {s \in DOMAIN sockets : sockets[s].readyState \in {"CONNECTING", "OPEN"}}

\* C4 as stated: at most one socket of the session is open or able to open.
C4_AsStated == Cardinality(Live) <= 1

\* the step delivers an event of a socket other than the current one, made
\* for another model than the selected one, while the current socket is open
StaleSocketEvent ==
  /\ lastEvent'.op \in {"onopen", "onmessage", "onclose", "onerror"}
  /\ lastEvent'.sock # socketRef
  /\ sockets[lastEvent'.sock].model # selectedModel
  /\ sockets[socketRef].readyState = "OPEN"

\* C5 as stated: once the socket of the newly selected model is open, no
\* event of a socket of a previously selected model changes the session state.
C5_AsStated ==
  [][StaleSocketEvent =>
       UNCHANGED <<isConnected, isStreaming, currentResponse, messages>>]_vars

\* C7: while a stream is in progress (a stream_start arrived and no
\* stream_end or error frame after it) the Streaming Buffer is the
\* concatenation, in arrival order, of the deltas received since that
\* stream_start.
C7_BufferIsDeltas ==
  stream.open => (isStreaming /\ currentResponse = Concat(stream.deltas))

C7_Witness ==
  /\ stream.open
  /\ stream.deltas = <<"Hel">>
  /\ currentResponse = "Hel"
  /\ \E k \in 1..Len(messages) :
       messages[k].type = "assistant" /\ messages[k].content = "lo"

\* C6 is about a change of the selected model while a stream is in progress.
\* The select is disabled while isStreaming, and the buffer is empty whenever
\* isStreaming is false, so no step of the model is such a change:
SelectedModelChangesOnlyWhenIdle ==
  [][selectedModel' # selectedModel =>
       (~isStreaming /\ currentResponse = "" /\ ~stream.open)]_vars

\* some socket of the model m has opened
OpenedBefore(m) ==
  \E t \in DOMAIN sockets : sockets[t].model = m /\ socketLog[t].opened

\* C8 as stated: the first open of a socket of the model M appends the
\* greeting of M, and a later open of a socket of M appends nothing.
C8_AsStated ==
  [][lastEvent'.op = "onopen" =>
       LET m == sockets[lastEvent'.sock].model
       IN messages' = IF OpenedBefore(m) THEN messages
                      ELSE Append(messages, greeting(m))]_vars

\* C8, amended: the open of a socket of the model M appends the greeting of M
\* exactly when the history held no greeting at the time the socket was
\* created, and appends nothing otherwise; so the open that follows a switch
\* from a greeted model A to a model B appends no greeting of B.
C8_GreetingPerSession ==
  [][lastEvent'.op = "onopen" =>
       LET s == lastEvent'.sock
       IN messages' = IF socketLog[s].greetedAtCreate THEN messages
                      ELSE Append(messages, greeting(sockets[s].model))]_vars

C8_Witness ==
  /\ lastEvent.op = "onopen"
  /\ lastEvent.sock = 2
  /\ socketLog[2].greetedAtCreate
  /\ sockets[1].model # sockets[2].model
  /\ \E k \in 1..Len(messages) : messages[k] = greeting(sockets[1].model)
  /\ \A k \in 1..Len(messages) : messages[k] # greeting(sockets[2].model)

\* the current socket was dropped and the session shows disconnected
Dropped ==
  /\ socketRef # 0
  /\ sockets[socketRef].readyState = "CLOSED"
  /\ ~isConnected

\* C9 as stated: whenever the session is disconnected after a drop, the
\* model select is available to the user.
C9_AsStated == Dropped => ModelSelectEnabled

\* C10: an error frame, in any state, appends exactly one system Message,
\* with the content "Error: " followed by the content of the frame, rewrites
\* no earlier Message and leaves the session not streaming.
C10_ErrorFrame ==
  [][FrameStep("error") =>
       /\ KeepsHistory
       /\ \E k \in 1..Len(Added) :
            /\ Added[k] = [type |-> "system",
                           content |-> "Error: " \o lastEvent'.arg.content]
            /\ \A j \in 1..Len(Added) : Added[j].type = "system" => j = k
       /\ ~isStreaming']_vars

C10_Witness ==
  /\ lastEvent.op = "onmessage" /\ parsedType(lastEvent.arg) = "error"
  /\ ~isStreaming
  /\ Len(messages) >= 2
  /\ messages[Len(messages) - 1] = [type |-> "system", content |-> "Error: overloaded"]
  /\ messages[Len(messages)].type = "assistant"

\* the step delivers a frame JSON.parse rejects, or one of no known type
IgnoredFrameStep ==
  /\ lastEvent'.op = "onmessage"
  /\ \/ ~lastEvent'.arg.wellFormed
     \/ lastEvent'.arg.type \notin
          {"stream_start", "stream", "stream_end", "error", "chat_histories"}

\* C11: a frame that fails to parse, or whose type is none of stream_start,
\* stream, stream_end, error and chat_histories, changes no state of the
\* session: connection state, streaming flag, Streaming Buffer, Message
\* history and history summaries stay as they are.
C11_IgnoredFrame ==
  [][IgnoredFrameStep =>
       UNCHANGED <<isConnected, isStreaming, currentResponse, messages,
                   chatHistories, selectedModel, models, inputMessage,
                   initialConnectionMade, sockets, socketRef, sent>>]_vars

C11_Witness ==
  /\ lastEvent.op = "onmessage"
  /\ ~lastEvent.arg.wellFormed
  /\ isStreaming
  /\ currentResponse = "Hel"

\* C12: the Message history is append-only: every step leaves the history it
\* found as a prefix of the history it leaves.
C12_AppendOnly == [][KeepsHistory]_vars

C12_Witness ==
  /\ Len(messages) = 3
  /\ messages[1].type = "assistant"
  /\ messages[2] = [type |-> "user", content |-> "hi"]
  /\ messages[3].type = "system"

\* C13: a close or error event of a socket leaves the session disconnected
\* and creates no socket; a step creates a socket only when it changes the
\* selected model to another, non-empty identifier, and then it creates one.
C13_NoReconnect ==
  [][/\ lastEvent'.op \in {"onclose", "onerror"} =>
          (~isConnected' /\ sockets' = [sockets EXCEPT
                                         ![lastEvent'.sock].readyState = "CLOSED"])
     /\ Len(sockets') # Len(sockets) =>
          /\ selectedModel' # selectedModel
          /\ selectedModel' # ""
          /\ Len(sockets') = Len(sockets) + 1
          /\ sockets'[Len(sockets')].model = selectedModel']_vars

C13_Witness ==
  /\ lastEvent.op \in {"onclose", "onerror"}
  /\ lastEvent.sock = socketRef
  /\ sockets[socketRef].readyState = "CLOSED"
  /\ ~isConnected
  /\ Len(sockets) = 1
  /\ socketLog[1].opened

\* C14 as stated: getDisplayName(getDisplayName(x)) = getDisplayName(x) for
\* every model identifier x, the four aliases included.
C14_AsStated == nameShown.done => nameShown.twice = nameShown.once

\* C14, amended: getDisplayName(getDisplayName(x)) = getDisplayName(x) for
\* every x whose display name is neither "DeepSeek R1" nor "Llama 3.2"; for
\* these two names the second application gives "Deepseek R1" and "Llama 3 2".
C14_IdempotentButTwo ==
  nameShown.done =>
    nameShown.twice =
      IF nameShown.once = "DeepSeek R1" THEN "Deepseek R1"
      ELSE IF nameShown.once = "Llama 3.2" THEN "Llama 3 2"
      ELSE nameShown.once

C14_Witness ==
  /\ nameShown.done
  /\ nameInput = "custom-model:7ba"
  /\ nameShown.once = "Custom Model"
  /\ nameShown.twice = "Custom Model"

\* no alias of the table occurs in x
Unmapped(x) ==
  \A k \in 1..Len(modelMap) : ~includes(toLowerCase(x), toLowerCase(modelMap[k][1]))

\* the part of x before its first ":"
RECURSIVE BeforeColon(_)
BeforeColon(x) ==
  IF Len(x) = 0 \/ CharAt(x, 1) = ":" THEN ""
  ELSE CharAt(x, 1) \o BeforeColon(SubSeq(x, 2, Len(x)))

\* r is made of letters, digits and single blanks between fragments, each
\* fragment starting with no small letter and holding no capital after that
TitleCased(r) ==
  \A i \in 1..Len(r) :
    LET c == CharAt(r, i)
        first == i = 1 \/ CharAt(r, i - 1) = " "
    IN /\ c = " " \/ ~NonAlnum(c)
       /\ first => ~CharIn(c, LowerChars)
       /\ ~first => ~CharIn(c, UpperChars)

\* C15 as stated: for an input no alias matches, getDisplayName returns a
\* non-empty string of title-cased fragments joined by single blanks.
C15_AsStated ==
  (nameShown.done /\ Unmapped(nameInput)) =>
    (nameShown.once # "" /\ TitleCased(nameShown.once))

\* C15, amended: for an input no alias matches, getDisplayName returns a
\* string of title-cased fragments joined by single blanks, as long as the
\* part of the input before its first ":"; it is the empty string exactly
\* when that part is empty.
C15_TitleCased ==
  (nameShown.done /\ Unmapped(nameInput)) =>
    /\ TitleCased(nameShown.once)
    /\ Len(nameShown.once) = Len(BeforeColon(nameInput))
    /\ (nameShown.once = "" <=> BeforeColon(nameInput) = "")

C15_Witness ==
  /\ nameShown.done
  /\ nameInput = "-aB"
  /\ nameShown.once = " Ab"

\* b is a in reverse order
IsReversed(a, b) ==
  /\ Len(b) = Len(a)
  /\ \A k \in 1..Len(a) : b[k] = a[Len(a) + 1 - k]

\* C16: when the fetch of the model list succeeds with a non-empty list L, the
\* stored list is L reversed, the selected model is the last element of L,
\* and exactly one socket is created, for that model.
C16_FetchSuccess ==
  [][(lastEvent'.op = "fetchModelsOk" /\ Len(lastEvent'.arg) > 0) =>
       LET L == lastEvent'.arg
       IN /\ IsReversed(L, models')
          /\ selectedModel' = L[Len(L)]
          /\ Len(sockets') = Len(sockets) + 1
          /\ SubSeq(sockets', 1, Len(sockets)) = sockets
          /\ sockets'[Len(sockets')].model = L[Len(L)]
          /\ sockets'[Len(sockets')].readyState = "CONNECTING"
          /\ socketRef' = Len(sockets')]_vars

C16_Witness ==
  /\ lastEvent.op = "fetchModelsOk"
  /\ lastEvent.arg = <<"custom-model:7b", "mistral:latest">>
  /\ models = <<"mistral:latest", "custom-model:7b">>
  /\ selectedModel = "mistral:latest"
  /\ Len(sockets) = 1
  /\ sockets[1].model = "mistral:latest"

\* C17: when the fetch of the model list fails, the model list stays empty,
\* no model is selected, no socket is created and exactly one system Message,
\* the connection error, is appended.
C17_FetchFailure ==
  [][lastEvent'.op = "fetchModelsFail" =>
       /\ models' = <<>>
       /\ selectedModel' = ""
       /\ sockets' = <<>>
       /\ socketRef' = 0
       /\ Len(messages') = Len(messages) + 1
       /\ SubSeq(messages', 1, Len(messages)) = messages
       /\ messages'[Len(messages')].type = "system"
       /\ messages'[Len(messages')].content =
            "Error connecting to the server. Please ensure the backend is running."]_vars

C17_Witness ==
  /\ lastEvent.op = "fetchModelsFail"
  /\ lastEvent.arg = "no models list"
  /\ models = <<>> /\ selectedModel = "" /\ sockets = <<>>
  /\ Len(messages) = 1
  /\ messages[1].type = "system"

\* C18 as stated: a stream delta that arrives while the session is not
\* streaming appends no Message.
C18_AsStated ==
  [][(FrameStep("stream") /\ ~isStreaming) => messages' = messages]_vars

\* C19: a close or error event of a socket sets the connection state to
\* disconnected and changes nothing else of the session: no Message, the
\* streaming flag and the Streaming Buffer as they were.
C19_DropOnlyDisconnects ==
  [][lastEvent'.op \in {"onclose", "onerror"} =>
       /\ ~isConnected'
       /\ UNCHANGED <<messages, isStreaming, currentResponse, models, selectedModel,
                      inputMessage, initialConnectionMade, chatHistories,
                      socketRef, sent>>]_vars

C19_Witness ==
  /\ lastEvent.op = "onerror"
  /\ lastEvent.sock = socketRef
  /\ ~isConnected
  /\ isStreaming
  /\ currentResponse = "Hel"

\* C20: the session leaves the streaming state only in a step that delivers
\* a stream_end or an error frame; no submission, model selection, socket
\* open, close or error ends it.
C20_StreamingUntilEnd ==
  [][(isStreaming /\ ~isStreaming') =>
       (FrameStep("stream_end") \/ FrameStep("error"))]_vars

C20_Witness ==
  /\ isStreaming
  /\ lastEvent.op = "handleSendMessage"
  /\ socketRef # 0
  /\ sockets[socketRef].readyState = "CLOSED"

\* C21 as stated: whenever the session is connected (isConnected), the socket
\* socketRef.current holds is open, whatever the order of the close event of
\* the old socket and the open event of the new one after a model switch.
C21_AsStated ==
  isConnected => (socketRef # 0 /\ sockets[socketRef].readyState = "OPEN")

\* the step hands one more frame to the network
Sends == sent' # sent

\* C22: every step that sends a frame sends exactly one, a message or a
\* load_history request, on the socket created last, which is the one
\* socketRef.current holds and whose endpoint is the selected model; so no
\* frame goes out on a socket created for a model selected before.
C22_SentOnCurrentSocket ==
  [][Sends =>
       /\ Len(sent') = Len(sent) + 1
       /\ SubSeq(sent', 1, Len(sent)) = sent
       /\ LET out == sent'[Len(sent')]
          IN /\ out.frame.type \in {"message", "load_history"}
             /\ out.sock = Len(sockets')
             /\ out.sock = socketRef'
             /\ sockets'[out.sock].model = selectedModel']_vars

\* a load_history request went out on the socket of the newly selected
\* model while the socket of the model selected before is open as well
C22_Witness ==
  /\ Len(sockets) = 2
  /\ sockets[1].readyState = "OPEN"
  /\ sockets[1].model # selectedModel
  /\ Len(sent) = 1
  /\ sent[1].sock = 2
  /\ sent[1].frame.type = "load_history"
  /\ lastEvent.op = "loadChatHistory"

====
